---- MODULE Spec2Model ----
(***************************************************************************)
(* Model of the scalar reverse-mode autodiff engine of src/operators.rs:   *)
(* GraphNode / Value, the operator impls that grow the graph, the          *)
(* topological sort and the backward driver.                               *)
(*                                                                         *)
(* An Rc<RefCell<GraphNode>> is an index into the arena `nodes`; the index *)
(* is the node's identity (Rc::as_ptr) and a Value is such an index, so    *)
(* Value::clone is the identity on indices.  The arena keeps every node    *)
(* (the caller may hold a clone of every Value).                           *)
(*                                                                         *)
(* f64 is modelled by exact extended rationals: n/d with d > 0 in lowest   *)
(* terms, and d = 0 for the IEEE specials (1/0 = +inf, -1/0 = -inf,        *)
(* 0/0 = NaN).  Rounding and the sign of zero are not modelled.  tanh and  *)
(* exp are transcendental and are left out; they have the shape of powop.  *)
(* The label field is diagnostic only and is left out.  The scalar forms   *)
(* Add<f64>, Mul<f64> and Sub<f64> are Value::from followed by the Value   *)
(* form and are left out, except Mul<f64> inside Sub and the two Div<f64>  *)
(* forms.                                                                  *)
(*                                                                         *)
(* The closures hold Weak references.  During a pass every node under root *)
(* is kept alive by the topo vector and the prev vectors, so each upgrade  *)
(* succeeds; the closures are modelled without the failing branch.  The    *)
(* driver holds node.borrow() while the closure of node runs and the       *)
(* closure takes borrow_mut() of the operands only, which are other nodes. *)
(*                                                                         *)
(* GraphNode::backward is one action.  called, grad0, roots and last are   *)
(* history variables: the closure invocations of the latest pass, the      *)
(* grads before it, the roots passed so far and the latest call made.      *)
(***************************************************************************)
EXTENDS Integers, Sequences, FiniteSets, TLC

VARIABLES nodes, pc, roots, topo, called, grad0, last

vars == <<nodes, pc, roots, topo, called, grad0, last>>

\* the argument of the latest differentiate call (0 before the first)
root == IF roots = <<>> THEN 0 ELSE roots[Len(roots)]

\* ---------------------------------------------------------------- bounds
MaxNodes == 4
MaxPasses == 2

\* ------------------------------------------------------------ f64 values
Abs(i) == IF i < 0 THEN -i ELSE i

RECURSIVE GCD(_, _)
GCD(a, b) == IF b = 0 THEN a ELSE GCD(b, a % b)

Num(n, d) == [n |-> n, d |-> d]

\* n/d, d > 0, in lowest terms
Norm(n, d) == LET g == GCD(Abs(n), d) IN Num(n \div g, d \div g)

FromInt(i) == Num(i, 1)
Zero == FromInt(0)
One == FromInt(1)
Inf == Num(1, 0)
NegInf == Num(-1, 0)
NaN == Num(0, 0)

IsFinite(x) == x.d # 0
IsNaN(x) == x.d = 0 /\ x.n = 0
Sign(x) == IF x.n > 0 THEN 1 ELSE IF x.n < 0 THEN -1 ELSE 0

\* f64 + f64
FAdd(x, y) ==
    IF IsFinite(x) /\ IsFinite(y) THEN Norm(x.n * y.d + y.n * x.d, x.d * y.d)
    ELSE IF IsNaN(x) \/ IsNaN(y) THEN NaN
    ELSE IF ~IsFinite(x) /\ ~IsFinite(y) THEN (IF x = y THEN x ELSE NaN)
    ELSE IF IsFinite(x) THEN y ELSE x

\* f64 * f64
FMul(x, y) ==
    IF IsFinite(x) /\ IsFinite(y) THEN Norm(x.n * y.n, x.d * y.d)
    ELSE IF IsNaN(x) \/ IsNaN(y) THEN NaN
    ELSE IF Sign(x) * Sign(y) = 0 THEN NaN
    ELSE Num(Sign(x) * Sign(y), 0)

\* 1.0 / x
FInv(x) ==
    IF IsNaN(x) THEN NaN
    ELSE IF ~IsFinite(x) THEN Zero
    ELSE IF x.n = 0 THEN Inf
    ELSE IF x.n > 0 THEN Num(x.d, x.n) ELSE Num(-x.d, -x.n)

\* f64::powf for an integral exponent k
RECURSIVE powf(_, _)
powf(x, k) ==
    IF k = 0 THEN One
    ELSE IF k > 0 THEN FMul(x, powf(x, k - 1))
    ELSE FInv(powf(x, -k))

\* ------------------------------------------------------------ inputs
\* the f64 a caller constructs a leaf from or passes as a scalar operand
LeafData == {FromInt(-1), Zero, FromInt(2), FromInt(3)}
\* the exponents a caller passes to powop
PowExponents == {2}

\* ------------------------------------------------------------ GraphNode
\* op = "none" is Option::None (a leaf: no backward closure); exponent is
\* the value the powop closure captured (0 for the other operators).
GraphNode(data, op, prev, exponent) ==
    [data |-> data, grad |-> Zero, prev |-> prev, op |-> op, exponent |-> exponent]

Ids == 1..Len(nodes)

\* Value::new: a fresh leaf appended to the arena g
ValueNew(g, data) == Append(g, GraphNode(data, "none", <<>>, 0))

\* mutant of add: the result lists itself as its left parent
add_selfref(g, a, b) ==
    Append(g, GraphNode(FAdd(g[a].data, g[b].data), "+", <<Len(g) + 1, b>>, 0))

\* the operator bodies: the arena after the result node is created
add(g, a, b) == Append(g, GraphNode(FAdd(g[a].data, g[b].data), "+", <<a, b>>, 0))

mul(g, a, b) == Append(g, GraphNode(FMul(g[a].data, g[b].data), "*", <<a, b>>, 0))

powop(g, a, k) == Append(g, GraphNode(powf(g[a].data, k), "pow", <<a>>, k))

\* Div for Value: the zero test of the divisor
DivPanics(g, b) == g[b].data = Zero

\* Div for Value: self.clone() * other.powop(-1)
div(g, a, b) == LET g1 == powop(g, b, -1) IN mul(g1, a, Len(g1))

\* Div<f64> for Value and for &Value: self * Value::from(rhs).powop(-1)
div_f64(g, a, rhs) ==
    LET g1 == ValueNew(g, rhs)
        g2 == powop(g1, Len(g1), -1)
    IN  mul(g2, a, Len(g2))

\* mutant of sub: the subtrahend is not negated
sub_no_negate(g, a, b) ==
    LET g1 == ValueNew(g, One)
        g2 == mul(g1, b, Len(g1))
    IN  add(g2, a, Len(g2))

\* Sub for Value: self.clone() + (other * -1.0), with Mul<f64> for Value
sub(g, a, b) ==
    LET g1 == ValueNew(g, FromInt(-1))
        g2 == mul(g1, b, Len(g1))
    IN  add(g2, a, Len(g2))

Call(name, a, b, rhs) == [call |-> name, self |-> a, other |-> b, rhs |-> rhs, n0 |-> Len(nodes)]

\* ------------------------------------------------------ topological_sort
\* dfs of topological_sort: st = [visited, topo]; a node already in
\* visited returns at once, otherwise it is marked, its parents are
\* visited in order and it is pushed after them.
RECURSIVE dfs(_, _, _)
RECURSIVE dfsParents(_, _, _, _)
\* mutant of dfs: a node counts as visited when a node of equal data was
dfs_by_value(g, n, st) ==
    IF \E v \in st.visited : g[v].data = g[n].data THEN st
    ELSE LET st1 == [visited |-> st.visited \cup {n}, topo |-> st.topo]
             st2 == dfsParents(g, g[n].prev, 1, st1)
         IN  [visited |-> st2.visited, topo |-> Append(st2.topo, n)]

dfs(g, n, st) ==
    IF n \in st.visited THEN st
    ELSE LET st1 == [visited |-> st.visited \cup {n}, topo |-> st.topo]
             st2 == dfsParents(g, g[n].prev, 1, st1)
         IN  [visited |-> st2.visited, topo |-> Append(st2.topo, n)]

\* the loop `for w in parents { dfs(w, visited, topo) }`
dfsParents(g, parents, i, st) ==
    IF i > Len(parents) THEN st
    ELSE dfsParents(g, parents, i + 1, dfs(g, parents[i], st))

\* mutant of topological_sort: every node of the arena, in creation order
topological_sort_all(g, r) == [i \in 1..Len(g) |-> i]

topological_sort(g, r) == dfs(g, r, [visited |-> {}, topo |-> <<>>]).topo

\* ------------------------------------------------------ backward closures
\* mutant of AddGrad: `=` for `+=`
AddGrad_overwrite(g, x, c) == [g EXCEPT ![x].grad = c]

\* x_rc.borrow_mut().grad += c
AddGrad(g, x, c) == [g EXCEPT ![x].grad = FAdd(@, c)]

\* the closure Add::add stores in out.backward
add_backward(g, out) ==
    LET out_grad == g[out].grad
        a == g[out].prev[1]
        b == g[out].prev[2]
    IN  AddGrad(AddGrad(g, a, out_grad), b, out_grad)

\* mutant of mul_backward: each operand is scaled by its own data
mul_backward_swapped(g, out) ==
    LET out_grad == g[out].grad
        a == g[out].prev[1]
        b == g[out].prev[2]
        a_val == g[a].data
        b_val == g[b].data
    IN  AddGrad(AddGrad(g, a, FMul(a_val, out_grad)), b, FMul(b_val, out_grad))

\* the closure Mul::mul stores in out.backward
mul_backward(g, out) ==
    LET out_grad == g[out].grad
        a == g[out].prev[1]
        b == g[out].prev[2]
        a_val == g[a].data
        b_val == g[b].data
    IN  AddGrad(AddGrad(g, a, FMul(b_val, out_grad)), b, FMul(a_val, out_grad))

\* the closure powop stores in out.backward
pow_backward(g, out) ==
    LET out_grad == g[out].grad
        a == g[out].prev[1]
        a_val == g[a].data
        exponent == g[out].exponent
    IN  AddGrad(g, a, FMul(FMul(FromInt(exponent), powf(a_val, exponent - 1)), out_grad))

\* (cb)() for the closure of node n
InvokeBackward(g, n) ==
    CASE g[n].op = "+" -> add_backward(g, n)
      [] g[n].op = "*" -> mul_backward(g, n)
      [] g[n].op = "pow" -> pow_backward(g, n)

\* mutant of SeedRoot: the seed is written to data
SeedRoot_data(g, r) == [g EXCEPT ![r].data = One]

\* root.borrow_mut().grad = 1.0
SeedRoot(g, r) == [g EXCEPT ![r].grad = One]

\* ------------------------------------------------------------------ Init
Init ==
    /\ nodes = <<>>
    /\ pc = "idle"
    /\ roots = <<>>
    /\ topo = <<>>
    /\ called = <<>>
    /\ grad0 = <<>>
    /\ last = [call |-> "init", self |-> 0, other |-> 0, rhs |-> Zero, n0 |-> 0]

PassVars == <<roots, topo, called, grad0>>

\* ------------------------------------------------- graph construction
\* Value::new(data, label)
New(data) ==
    /\ pc = "idle"
    /\ Len(nodes) + 1 <= MaxNodes
    /\ nodes' = ValueNew(nodes, data)
    /\ last' = Call("new", 0, 0, data)
    /\ UNCHANGED <<pc, PassVars>>

\* a + b  (Add for Value)
Add(a, b) ==
    /\ pc = "idle"
    /\ Len(nodes) + 1 <= MaxNodes
    /\ nodes' = add(nodes, a, b)
    /\ last' = Call("add", a, b, Zero)
    /\ UNCHANGED <<pc, PassVars>>

\* a * b  (Mul for Value)
Mul(a, b) ==
    /\ pc = "idle"
    /\ Len(nodes) + 1 <= MaxNodes
    /\ nodes' = mul(nodes, a, b)
    /\ last' = Call("mul", a, b, Zero)
    /\ UNCHANGED <<pc, PassVars>>

\* a.powop(k)
Powop(a, k) ==
    /\ pc = "idle"
    /\ Len(nodes) + 1 <= MaxNodes
    /\ nodes' = powop(nodes, a, k)
    /\ last' = Call("powop", a, 0, FromInt(k))
    /\ UNCHANGED <<pc, PassVars>>

\* a / b  (Div for Value): panics on a zero divisor before anything is built
Div(a, b) ==
    /\ pc = "idle"
    /\ Len(nodes) + 2 <= MaxNodes
    /\ IF DivPanics(nodes, b)
       THEN pc' = "panicked" /\ nodes' = nodes
       ELSE pc' = pc /\ nodes' = div(nodes, a, b)
    /\ last' = Call("div", a, b, Zero)
    /\ UNCHANGED PassVars

\* a / rhs  (Div<f64> for Value)
DivF64(a, rhs) ==
    /\ pc = "idle"
    /\ Len(nodes) + 3 <= MaxNodes
    /\ nodes' = div_f64(nodes, a, rhs)
    /\ last' = Call("div_f64", a, 0, rhs)
    /\ UNCHANGED <<pc, PassVars>>

\* &a / rhs  (Div<f64> for &Value)
DivRefF64(a, rhs) ==
    /\ pc = "idle"
    /\ Len(nodes) + 3 <= MaxNodes
    /\ nodes' = div_f64(nodes, a, rhs)
    /\ last' = Call("div_ref_f64", a, 0, rhs)
    /\ UNCHANGED <<pc, PassVars>>

\* a - b  (Sub for Value)
Sub(a, b) ==
    /\ pc = "idle"
    /\ Len(nodes) + 3 <= MaxNodes
    /\ nodes' = sub(nodes, a, b)
    /\ last' = Call("sub", a, b, Zero)
    /\ UNCHANGED <<pc, PassVars>>

\* ------------------------------------------------------ GraphNode::backward
\* the loop `for node in topo.into_iter().rev()` from position i down to 1:
\* st = [g, log]; a node with a closure has it invoked, a leaf is skipped.
\* log records each invocation: the node, the grad its closure read from
\* it and the grad root held at that moment.
RECURSIVE backward_loop(_, _, _, _)
backward_loop(st, order, i, r) ==
    IF i = 0 THEN st
    ELSE LET n == order[i]
             g == st.g
         IN  IF g[n].op # "none"
             THEN backward_loop(
                      [g |-> InvokeBackward(g, n),
                       log |-> Append(st.log, [node |-> n, out_grad |-> g[n].grad,
                                               root_grad |-> g[r].grad])],
                      order, i - 1, r)
             ELSE backward_loop(st, order, i - 1, r)

\* mutant of backward: the order is walked front to back
backward_forward(g, r) ==
    LET order == topological_sort(g, r)
        seeded == SeedRoot(g, r)
        fwd == [i \in 1..Len(order) |-> order[Len(order) + 1 - i]]
    IN  backward_loop([g |-> seeded, log |-> <<>>], fwd, Len(fwd), r)

\* mutant of backward: every grad is reset to 0.0 before the pass
backward_reset(g, r) ==
    LET order == topological_sort(g, r)
        zeroed == [i \in 1..Len(g) |-> [g[i] EXCEPT !.grad = Zero]]
        seeded == SeedRoot(zeroed, r)
    IN  backward_loop([g |-> seeded, log |-> <<>>], order, Len(order), r)

\* GraphNode::backward(root): sort, seed, then the loop
backward(g, r) ==
    LET order == topological_sort(g, r)
        seeded == SeedRoot(g, r)
    IN  backward_loop([g |-> seeded, log |-> <<>>], order, Len(order), r)

Backward(r) ==
    /\ pc = "idle"
    /\ Len(roots) < MaxPasses
    /\ LET done == backward(nodes, r) IN
         /\ nodes' = done.g
         /\ called' = done.log
    /\ topo' = topological_sort(nodes, r)
    /\ roots' = Append(roots, r)
    /\ grad0' = [i \in Ids |-> nodes[i].grad]
    /\ last' = Call("backward", r, 0, Zero)
    /\ UNCHANGED pc

Next ==
    \/ \E d \in LeafData : New(d)
    \/ \E a, b \in Ids : Add(a, b)
    \/ \E a, b \in Ids : Mul(a, b)
    \/ \E a \in Ids, k \in PowExponents : Powop(a, k)
    \/ \E a, b \in Ids : Div(a, b)
    \/ \E a \in Ids, rhs \in LeafData : DivF64(a, rhs)
    \/ \E a \in Ids, rhs \in LeafData : DivRefF64(a, rhs)
    \/ \E a, b \in Ids : Sub(a, b)
    \/ \E r \in Ids : Backward(r)

Spec == Init /\ [][Next]_vars

\* a caller that only builds graphs (never calls differentiate)
NextBuild ==
    \/ \E d \in LeafData : New(d)
    \/ \E a, b \in Ids : Add(a, b)
    \/ \E a, b \in Ids : Mul(a, b)
    \/ \E a \in Ids, k \in PowExponents : Powop(a, k)
    \/ \E a, b \in Ids : Div(a, b)
    \/ \E a \in Ids, rhs \in LeafData : DivF64(a, rhs)
    \/ \E a \in Ids, rhs \in LeafData : DivRefF64(a, rhs)
    \/ \E a, b \in Ids : Sub(a, b)

SpecBuild == Init /\ [][NextBuild]_vars

\* ===================================================== reference notions
\* (defined from the parent edges alone, not from the sort or the closures)

Parents(g, n) == {g[n].prev[j] : j \in DOMAIN g[n].prev}

RECURSIVE Closure(_, _, _)
Closure(g, S, k) ==
    IF k = 0 THEN S
    ELSE Closure(g, S \cup UNION {Parents(g, n) : n \in S}, k - 1)

\* the nodes reachable from r through parent edges, r included
Reach(g, r) == Closure(g, {r}, Len(g))

\* the nodes reachable from n through one or more parent edges
Ancestors(g, n) == Closure(g, Parents(g, n), Len(g))

\* the local partial derivative of node c with respect to its j-th operand
Local(g, c, j) ==
    CASE g[c].op = "+" -> One
      [] g[c].op = "*" -> g[g[c].prev[3 - j]].data
      [] g[c].op = "pow" ->
            FMul(FromInt(g[c].exponent), powf(g[g[c].prev[1]].data, g[c].exponent - 1))

\* d(r)/d(n): the sum over all parent-edge paths from r to n of the product
\* of the local partial derivatives along the path
RECURSIVE Deriv(_, _, _)
Deriv(g, r, n) ==
    IF r = n THEN One
    ELSE LET ps == g[r].prev
             via1 == Len(ps) >= 1 /\ n \in Reach(g, ps[1])
             via2 == Len(ps) >= 2 /\ n \in Reach(g, ps[2])
         IN  IF via1 /\ via2
             THEN FAdd(FMul(Local(g, r, 1), Deriv(g, ps[1], n)),
                       FMul(Local(g, r, 2), Deriv(g, ps[2], n)))
             ELSE IF via1 THEN FMul(Local(g, r, 1), Deriv(g, ps[1], n))
             ELSE IF via2 THEN FMul(Local(g, r, 2), Deriv(g, ps[2], n))
             ELSE Zero

RECURSIVE SumFn(_, _)
SumFn(f, S) ==
    IF S = {} THEN Zero
    ELSE LET x == CHOOSE y \in S : TRUE IN FAdd(f[x], SumFn(f, S \ {x}))

\* a differentiate call has completed and root is its argument
PassDone == root # 0

\* the last pass ran over finite forward values and finite prior grads
FinitePass ==
    \A n \in Reach(nodes, root) : IsFinite(nodes[n].data) /\ IsFinite(grad0[n])

IsLeaf(n) == nodes[n].op = "none"

\* ================================================================ claims

\* C1: when every grad was 0.0 before differentiate(root), afterwards every
\* node reachable from root holds d(root)/d(node): root holds 1.0 and every
\* other node the sum over all paths from root of the product of the local
\* partials (add 1, multiply the other operand's data, power k*data^(k-1)).
C1_GradIsDerivative ==
    (PassDone /\ FinitePass /\ \A i \in DOMAIN grad0 : grad0[i] = Zero)
        => /\ nodes[root].grad = One
           /\ \A n \in Reach(nodes, root) : nodes[n].grad = Deriv(nodes, root, n)

\* a = 2, b = 3, c = a * b differentiated: grad(a) = 3, grad(b) = 2, grad(c) = 1
C1_Witness ==
    /\ PassDone
    /\ \A i \in DOMAIN grad0 : grad0[i] = Zero
    /\ nodes[root].op = "*"
    /\ LET a == nodes[root].prev[1]
           b == nodes[root].prev[2]
       IN  /\ IsLeaf(a) /\ IsLeaf(b)
           /\ nodes[a].data = FromInt(2) /\ nodes[b].data = FromInt(3)
           /\ nodes[a].grad = FromInt(3) /\ nodes[b].grad = FromInt(2)
           /\ nodes[root].grad = One

\* the edges (c, j) of the graph under root that end in node n
EdgesInto(n) ==
    {e \in Reach(nodes, root) \X {1, 2} :
        e[2] \in DOMAIN nodes[e[1]].prev /\ nodes[e[1]].prev[e[2]] = n}

\* what the closure of the edge's consumer adds for that edge
Contribution(e) == FMul(Local(nodes, e[1], e[2]), nodes[e[1]].grad)

\* C2: contributions accumulate and never overwrite: after differentiate(root)
\* every node under root other than root holds its prior grad plus one
\* contribution per edge that ends in it (both operands of one node, or an
\* operand of several nodes); for a leaf a with grad 0.0 and s = a + a,
\* differentiating s leaves grad(a) = 2.0.
C2_Accumulates ==
    PassDone =>
        /\ \A n \in Reach(nodes, root) \ {root} :
              nodes[n].grad =
                  FAdd(grad0[n],
                       SumFn([e \in EdgesInto(n) |-> Contribution(e)], EdgesInto(n)))
        /\ (/\ nodes[root].op = "+"
            /\ nodes[root].prev[1] = nodes[root].prev[2]
            /\ IsLeaf(nodes[root].prev[1])
            /\ grad0[nodes[root].prev[1]] = Zero)
              => nodes[nodes[root].prev[1]].grad = FromInt(2)

\* d = (a + b) + a differentiated from zero grads: a is an operand of two
\* nodes and holds 2
C2_Witness ==
    /\ PassDone
    /\ \A i \in DOMAIN grad0 : grad0[i] = Zero
    /\ nodes[root].op = "+"
    /\ LET c == nodes[root].prev[1]
           a == nodes[root].prev[2]
       IN  /\ nodes[c].op = "+" /\ IsLeaf(a)
           /\ nodes[c].prev[1] = a /\ nodes[c].prev[2] # a
           /\ nodes[a].grad = FromInt(2)

DivCalls == {"div", "div_f64", "div_ref_f64"}

\* the divisor of the last division is zero
ZeroDivisor ==
    /\ last.call \in DivCalls
    /\ IF last.call = "div" THEN nodes[last.other].data = Zero ELSE last.rhs = Zero

\* C3: every division entry point (Value / Value, Value / f64, &Value / f64)
\* aborts on a divisor whose data is 0.0 before any result node exists, and
\* produces no node whose data is infinite or NaN.
C3_ZeroDivisorAborts ==
    ZeroDivisor =>
        /\ pc = "panicked"
        /\ \A i \in Ids : i > last.n0 => (IsLeaf(i) /\ IsFinite(nodes[i].data))

\* C4: topological_sort(root) holds exactly the nodes reachable from root,
\* each distinct node once however many edges reach it and whatever its
\* data, and every parent before each of its children.
C4_TopologicalSort ==
    \A r \in Ids :
        LET t == topological_sort(nodes, r) IN
            /\ {t[i] : i \in DOMAIN t} = Reach(nodes, r)
            /\ \A i, j \in DOMAIN t : t[i] = t[j] => i = j
            /\ \A i \in DOMAIN t : \A p \in Parents(nodes, t[i]) :
                  \E j \in 1..(i - 1) : t[j] = p

\* a sort that holds a node reached by two edges and two distinct nodes
\* with the same data, op and parents
C4_Witness ==
    \E r \in Ids :
        LET t == topological_sort(nodes, r) IN
            /\ \E i, j \in DOMAIN t :
                  /\ i # j
                  /\ nodes[t[i]].data = nodes[t[j]].data
                  /\ nodes[t[i]].op = nodes[t[j]].op
                  /\ nodes[t[i]].prev = nodes[t[j]].prev
            /\ \E c \in Ids : Len(nodes[c].prev) = 2 /\ nodes[c].prev[1] = nodes[c].prev[2]
                                /\ c \in Reach(nodes, r)

\* differentiate was called exactly twice, both times on the same root
TwiceSameRoot == Len(roots) = 2 /\ roots[1] = roots[2]

\* what the stale grads of the non-root nodes under root add to node n when
\* a pass propagates them again
StaleSum(n) ==
    LET M == Reach(nodes, root) \ {root} IN
        SumFn([m \in M |-> FMul(grad0[m], Deriv(nodes, m, n))], M)

\* C5 as stated: differentiate overwrites only root's grad (with 1.0); after
\* two calls on the same root without a reset, c = a + b has grad(c) = 1.0
\* and grad(a) = grad(b) = 2.0, and every non-root ancestor with a non-zero
\* derivative no longer holds d(root)/d(node).
C5_Original ==
    (TwiceSameRoot /\ FinitePass) =>
        /\ nodes[root].grad = One
        /\ (nodes[root].op = "+" /\ \A p \in Parents(nodes, root) : IsLeaf(p))
              => \A p \in Parents(nodes, root) :
                    nodes[p].grad = (IF nodes[root].prev[1] = nodes[root].prev[2]
                                     THEN FromInt(4) ELSE FromInt(2))
        /\ \A n \in Reach(nodes, root) \ {root} :
              Deriv(nodes, root, n) # Zero => nodes[n].grad # Deriv(nodes, root, n)

\* C5 (amended): differentiate never resets a grad: it overwrites root's with
\* 1.0 and adds onto every other.  After any call over finite values a
\* non-root node under root holds d(root)/d(node) plus the grads the non-root
\* nodes held before the call propagated again; after two calls on the same
\* root whose operands are all leaves that is twice d(root)/d(node) (c = a + b:
\* grad(c) = 1.0, grad(a) = grad(b) = 2.0), which differs from d(root)/d(node)
\* whenever that is non-zero.  In deeper graphs the stale part can cancel.
C5_SecondPassAddsOn ==
    (PassDone /\ FinitePass) =>
        /\ nodes[root].grad = One
        /\ \A n \in Reach(nodes, root) \ {root} :
              nodes[n].grad = FAdd(Deriv(nodes, root, n), StaleSum(n))
        /\ (TwiceSameRoot /\ \A p \in Parents(nodes, root) : IsLeaf(p))
              => \A n \in Reach(nodes, root) \ {root} :
                    /\ nodes[n].grad = FMul(FromInt(2), Deriv(nodes, root, n))
                    /\ Deriv(nodes, root, n) # Zero
                          => nodes[n].grad # Deriv(nodes, root, n)

\* c = a + b differentiated twice: grad(c) = 1, grad(a) = grad(b) = 2
C5_Witness ==
    /\ TwiceSameRoot
    /\ nodes[root].op = "+"
    /\ LET a == nodes[root].prev[1]
           b == nodes[root].prev[2]
       IN  /\ a # b /\ IsLeaf(a) /\ IsLeaf(b)
           /\ nodes[a].grad = FromInt(2) /\ nodes[b].grad = FromInt(2)
           /\ nodes[root].grad = One

\* the step is a differentiate call
IsBackwardStep == roots' # roots

\* C6: across any sequence of constructions, operator applications and
\* differentiate calls an existing node's data, op and parents never change;
\* an operator application changes no existing node's grad either, and a
\* differentiate call creates no node and changes nothing but grads.
C6_Frame ==
    [][/\ Len(nodes') >= Len(nodes)
       /\ \A i \in Ids :
             /\ nodes'[i].data = nodes[i].data
             /\ nodes'[i].op = nodes[i].op
             /\ nodes'[i].prev = nodes[i].prev
             /\ nodes'[i].exponent = nodes[i].exponent
       /\ ~IsBackwardStep => \A i \in Ids : nodes'[i].grad = nodes[i].grad
       /\ IsBackwardStep => Len(nodes') = Len(nodes)]_vars

\* a multiply applied to an operand that holds a non-zero grad from an
\* earlier differentiate call
C6_Witness ==
    /\ Len(roots) >= 1
    /\ last.call = "mul"
    /\ nodes[Len(nodes)].op = "*"
    /\ nodes[last.self].grad # Zero
    /\ nodes[last.other].grad # Zero

\* a - b is exact subtraction on finite operands
IsDifference(x, a, b) ==
    (IsFinite(a) /\ IsFinite(b)) => x = Norm(a.n * b.d - b.n * a.d, a.d * b.d)

\* a / b is exact division on finite operands, b # 0
IsQuotient(x, a, b) ==
    (IsFinite(a) /\ IsFinite(b) /\ b # Zero) => (IsFinite(x) /\ FMul(x, b) = a)

C8_PropagationOrder ==
    PassDone =>
        /\ \A i \in DOMAIN called : called[i].root_grad = One
        /\ {called[i].node : i \in DOMAIN called}
              = {n \in Reach(nodes, root) : ~IsLeaf(n)}
        /\ \A i, j \in DOMAIN called : called[i].node = called[j].node => i = j
        /\ \A i \in DOMAIN called : \A q \in Reach(nodes, root) :
              called[i].node \in Parents(nodes, q)
                  => \E j \in 1..(i - 1) : called[j].node = q
        /\ \A i \in DOMAIN called : called[i].out_grad = nodes[called[i].node].grad

\* d = (a + b) + a as in test chaining: the rule of d ran, then that of its
\* operand c, which read the grad d's rule had given it
C8_Witness ==
    /\ PassDone
    /\ Len(called) = 2
    /\ called[2].node \in Parents(nodes, called[1].node)
    /\ called[2].out_grad # Zero
    /\ \E n \in Reach(nodes, root) : IsLeaf(n)

\* C9: the parent graph is acyclic: no node reaches itself through one or
\* more parent edges, because the parents of a node existed before it.
C9_Acyclic ==
    \A n \in Ids :
        /\ n \notin Ancestors(nodes, n)
        /\ \A p \in Parents(nodes, n) : p \in 1..(n - 1)

\* an operator applied to two aliases of one Value, and its result used by
\* a later operator
C9_Witness ==
    \E n, m \in Ids :
        /\ Len(nodes[n].prev) = 2
        /\ nodes[n].prev[1] = nodes[n].prev[2]
        /\ n \in Parents(nodes, m)
        /\ Cardinality(Ancestors(nodes, m)) >= 2

\* C10: differentiate(root) leaves the grad of every node that is not
\* reachable from root (root's consumers, their descendants, unrelated
\* nodes) as it was before the call.
C10_OutsideUntouched ==
    PassDone =>
        \A n \in DOMAIN grad0 :
            n \notin Reach(nodes, root) => nodes[n].grad = grad0[n]

\* root is an intermediate node whose consumer held a non-zero grad from an
\* earlier call, and an unrelated leaf exists
C10_Witness ==
    /\ PassDone
    /\ ~IsLeaf(root)
    /\ \E n \in DOMAIN grad0 :
          /\ root \in Parents(nodes, n)
          /\ grad0[n] # Zero
    /\ \E n \in DOMAIN grad0 :
          /\ n \notin Reach(nodes, root)
          /\ root \notin Ancestors(nodes, n)

====
